---- MODULE Spec2Model ----
(***************************************************************************)
(* A model of two programs of the repository:                              *)
(*   - EquiformerV2Backbone (models/equiformer_v2/equiformer_v2.py):       *)
(*     the constructor's configuration checks, forward's graph set-up and  *)
(*     the graph-parallel partitioning of _init_gp_partitions;             *)
(*   - trans1x_linear_ref.py: the two subcommands, each a process-pool     *)
(*     imap over the dataset indices followed by a reduction and a write.  *)
(* Each program has its own specification (SpecCtor, SpecScript, SpecFwd,  *)
(* SpecGP) over the shared variables; the variables a specification does   *)
(* not use keep their initial value.                                       *)
(***************************************************************************)
EXTENDS Integers, Sequences, FiniteSets, TLC

VARIABLES
    \* ---- EquiformerV2Backbone.__init__ ----
    cfg,        \* the constructor's arguments (and whether e3nn is imported)
    cpc,        \* the constructor's position
    cerr,       \* the exception the constructor raised, or NoError
    self_,      \* the attributes set on self so far (name -> value)
    \* ---- trans1x_linear_ref.py ----
    args,       \* the parsed command line
    dataset,    \* the dataset's samples, by index
    spc,        \* main's position
    serr,       \* the exception that ended main, or NoError
    poolSize,   \* the number of worker processes of the pool (0: no pool yet)
    taskq,      \* indices not yet handed to a worker (the pool's task queue)
    running,    \* worker -> <<the index it is computing>>, or Idle
    attempts,   \* index -> how many times extract_data was started on it
    items,      \* imap's result cache: index -> [ok, value] of finished tasks
    outputs,    \* the list main has collected from the imap iterator
    reduced,    \* the reduction's result, or NotYet
    files,      \* path -> sequence of contents written to it, one per write
    \* ---- EquiformerV2Backbone.forward / _init_gp_partitions ----
    model,      \* the model's attributes forward reads and writes
    data,       \* the input batch
    gp,         \* graph parallelism: [initialized, cuts, rank]
    fpc,        \* forward's position
    graph,      \* the GraphData forward builds
    locals,     \* forward's local variables atomic_numbers, data_batch
    ret,        \* forward's return value
    parts       \* rank -> the tuple _init_gp_partitions returned on it

ctorVars == <<cfg, cpc, cerr, self_>>
scriptVars == <<args, dataset, spc, serr, poolSize, taskq, running, attempts,
                items, outputs, reduced, files>>
fwdVars == <<model, data, gp, fpc, graph, locals, ret, parts>>
vars == <<ctorVars, scriptVars, fwdVars>>

NoError == "none"
None == "None"
Unused == "unused"

(***************************************************************************)
(* EquiformerV2Backbone.__init__                                           *)
(***************************************************************************)

\* The values the model draws distance_function and weight_init from: the
\* documented ones and one undocumented value each.
DocumentedDistanceFunctions == {"gaussian", "sigmoid", "linearsigmoid", "silu"}
DistanceFunctionValues == DocumentedDistanceFunctions \cup {"bessel"}
DocumentedWeightInits == {"normal", "uniform"}
WeightInitValues == DocumentedWeightInits \cup {"xavier"}
EdgeChannelsValues == {2, 3}

\* GaussianSmearing(0.0, cutoff, 600, 2.0).num_output
NumGaussians == 600

Configs ==
    [ e3nn : BOOLEAN,
      use_atom_edge_embedding : BOOLEAN,
      share_atom_edge_embedding : BOOLEAN,
      use_energy_lin_ref : BOOLEAN,
      load_energy_lin_ref : BOOLEAN,
      weight_init : WeightInitValues,
      distance_function : DistanceFunctionValues,
      edge_channels : EdgeChannelsValues ]

\* d with key k set to v (k may be new)
Put(d, k, v) == [x \in (DOMAIN d) \cup {k} |-> IF x = k THEN v ELSE d[x]]
Has(d, k) == k \in DOMAIN d
EmptyDict == [x \in {} |-> 0]

CtorRaise(e) ==
    /\ cpc' = "raised"
    /\ cerr' = e

\* lines 198-202
ImportOk(c) == c.e3nn

CtorImportCheck ==
    /\ cpc = "import_check"
    /\ IF ImportOk(cfg)
         THEN cpc' = "atom_edge_flags" /\ UNCHANGED <<cerr, self_>>
         ELSE CtorRaise("ImportError") /\ UNCHANGED self_
    /\ UNCHANGED <<cfg, scriptVars, fwdVars>>

AtomEdgeFlagsOkNoCheck(c) == TRUE

\* line 233: assert self.use_atom_edge_embedding (when sharing)
AtomEdgeFlagsOk(c) == c.share_atom_edge_embedding => c.use_atom_edge_embedding

\* lines 229-236
CtorAtomEdgeFlags ==
    /\ cpc = "atom_edge_flags"
    /\ IF AtomEdgeFlagsOk(cfg)
         THEN /\ self_' = Put(Put(Put(Put(self_,
                     "edge_channels", cfg.edge_channels),
                     "use_atom_edge_embedding", cfg.use_atom_edge_embedding),
                     "share_atom_edge_embedding", cfg.share_atom_edge_embedding),
                     "block_use_atom_edge_embedding",
                        IF cfg.share_atom_edge_embedding
                          THEN FALSE
                          ELSE cfg.use_atom_edge_embedding)
              /\ cpc' = "lin_ref_check"
              /\ UNCHANGED cerr
         ELSE /\ self_' = Put(Put(Put(self_,
                     "edge_channels", cfg.edge_channels),
                     "use_atom_edge_embedding", cfg.use_atom_edge_embedding),
                     "share_atom_edge_embedding", cfg.share_atom_edge_embedding)
              /\ CtorRaise("AssertionError:share_atom_edge_embedding")
    /\ UNCHANGED <<cfg, scriptVars, fwdVars>>

LinRefOkNoCheck(c) == TRUE

\* lines 258-260: assert not (use_energy_lin_ref and not load_energy_lin_ref)
LinRefOk(c) == ~(c.use_energy_lin_ref /\ ~c.load_energy_lin_ref)

\* lines 256-260
CtorLinRefCheck ==
    /\ cpc = "lin_ref_check"
    /\ self_' = Put(Put(self_, "use_energy_lin_ref", cfg.use_energy_lin_ref),
                    "load_energy_lin_ref", cfg.load_energy_lin_ref)
    /\ IF LinRefOk(cfg)
         THEN cpc' = "weight_init_check" /\ UNCHANGED cerr
         ELSE CtorRaise("AssertionError:energy_lin_ref")
    /\ UNCHANGED <<cfg, scriptVars, fwdVars>>

\* line 263: assert self.weight_init in ["normal", "uniform"]
WeightInitOk(c) == c.weight_init \in {"normal", "uniform"}

CtorWeightInitCheckAfterEmbedding ==
    /\ cpc = "weight_init_check"
    /\ self_' = Put(Put(self_, "weight_init", cfg.weight_init),
                    "sphere_embedding", "Embedding")
    /\ IF WeightInitOk(cfg)
         THEN cpc' = "sphere_embedding" /\ UNCHANGED cerr
         ELSE CtorRaise("AssertionError:weight_init")
    /\ UNCHANGED <<cfg, scriptVars, fwdVars>>

\* lines 262-263
CtorWeightInitCheck ==
    /\ cpc = "weight_init_check"
    /\ self_' = Put(self_, "weight_init", cfg.weight_init)
    /\ IF WeightInitOk(cfg)
         THEN cpc' = "sphere_embedding" /\ UNCHANGED cerr
         ELSE CtorRaise("AssertionError:weight_init")
    /\ UNCHANGED <<cfg, scriptVars, fwdVars>>

\* lines 265-276: the first submodule, the sphere embedding
CtorSphereEmbedding ==
    /\ cpc = "sphere_embedding"
    /\ self_' = Put(Put(self_, "device", "cpu"), "sphere_embedding", "Embedding")
    /\ cpc' = "distance_function"
    /\ UNCHANGED <<cfg, cerr, scriptVars, fwdVars>>

\* lines 279-281: assert self.distance_function in ["gaussian"]
DistanceFunctionOk(c) == c.distance_function \in {"gaussian"}

\* lines 278-291
CtorDistanceFunction ==
    /\ cpc = "distance_function"
    /\ IF ~DistanceFunctionOk(cfg)
         THEN CtorRaise("AssertionError:distance_function") /\ UNCHANGED self_
         ELSE IF cfg.distance_function = "gaussian"
           THEN /\ self_' = Put(self_, "distance_expansion", "GaussianSmearing")
                /\ cpc' = "edge_channels"
                /\ UNCHANGED cerr
           ELSE CtorRaise("ValueError") /\ UNCHANGED self_
    /\ UNCHANGED <<cfg, scriptVars, fwdVars>>

\* lines 293-310
CtorEdgeChannels ==
    /\ cpc = "edge_channels"
    /\ LET ecl == <<NumGaussians, self_["edge_channels"], self_["edge_channels"]>>
       IN IF self_["share_atom_edge_embedding"] /\ self_["use_atom_edge_embedding"]
            THEN self_' = Put(Put(Put(self_,
                     "source_embedding", "Embedding"),
                     "target_embedding", "Embedding"),
                     "edge_channels_list", [ecl EXCEPT ![1] = ecl[1] + 2 * ecl[3]])
            ELSE self_' = Put(Put(Put(self_,
                     "source_embedding", None),
                     "target_embedding", None),
                     "edge_channels_list", ecl)
    /\ cpc' = "submodules"
    /\ UNCHANGED <<cfg, cerr, scriptVars, fwdVars>>

\* lines 312-389: rotations, mapping, grids, edge-degree embedding, blocks, norm
CtorSubmodules ==
    /\ cpc = "submodules"
    /\ self_' = Put(Put(Put(Put(Put(Put(self_,
                     "SO3_rotation", "ModuleList"),
                     "mappingReduced", "CoefficientMappingModule"),
                     "SO3_grid", "ModuleListInfo"),
                     "edge_degree_embedding", "EdgeDegreeEmbedding"),
                     "blocks", "ModuleList"),
                     "norm", "NormalizationLayer")
    /\ cpc' = "energy_lin_ref"
    /\ UNCHANGED <<cfg, cerr, scriptVars, fwdVars>>

\* line 390: if self.load_energy_lin_ref
CreatesEnergyLinRef(s) == s["load_energy_lin_ref"]

\* lines 390-396: the energy_lin_ref parameter, then the weight initialisation
CtorEnergyLinRef ==
    /\ cpc = "energy_lin_ref"
    /\ self_' = IF CreatesEnergyLinRef(self_)
                  THEN Put(self_, "energy_lin_ref", "Parameter")
                  ELSE self_
    /\ cpc' = "constructed"
    /\ UNCHANGED <<cfg, cerr, scriptVars, fwdVars>>

CtorNext ==
    \/ CtorImportCheck
    \/ CtorAtomEdgeFlags
    \/ CtorLinRefCheck
    \/ CtorWeightInitCheck
    \/ CtorSphereEmbedding
    \/ CtorDistanceFunction
    \/ CtorEdgeChannels
    \/ CtorSubmodules
    \/ CtorEnergyLinRef

(***************************************************************************)
(* trans1x_linear_ref.py                                                   *)
(***************************************************************************)

MaxSamples == 3
MaxWorkers == 2
MaxCpus == 2

\* a worker without a task
Idle == <<>>
NotYet == [pending |-> TRUE]

\* scatter(..., dim_size=10): the number of element slots of a feature row
DimSize == 10

\* A tensor of atomic numbers: its dtype and its (integral) values.
Tensor(dtype, v) == [dtype |-> dtype, v |-> v]

\* Tensor.long(): the same values as 64-bit integers
Long(t) == [dtype |-> "int64", v |-> t.v]

\* The samples the dataset is drawn from. force holds one row per atom (a
\* row is kept as one number that identifies it); corrupt marks a record
\* whose read raises.
Water == [atomic_numbers |-> Tensor("float32", <<1, 1, 8>>), y |-> 7,
          force |-> <<11, 12, 13>>, corrupt |-> FALSE]
Carbon == [atomic_numbers |-> Tensor("float32", <<6>>), y |-> 5,
           force |-> <<21>>, corrupt |-> FALSE]
Neon == [atomic_numbers |-> Tensor("float32", <<1, 10>>), y |-> 9,
         force |-> <<31, 32>>, corrupt |-> FALSE]
Corrupt == [atomic_numbers |-> Tensor("float32", <<1>>), y |-> 0,
            force |-> <<41>>, corrupt |-> TRUE]
Samples == {Water, Carbon, Neon, Corrupt}

\* A dataset holds its samples at the indices 0 .. len-1.
Datasets == UNION {[0 .. n - 1 -> Samples] : n \in 0 .. MaxSamples}
DatasetLen(ds) == Cardinality(DOMAIN ds)

Subcommands == {"compute_mean_std", "linref"}
\* what the command line may name: a subcommand, an unknown one, or none
SubcommandArgs == Subcommands \cup {"bogus", None}

Ok(v) == [ok |-> TRUE, value |-> v]
Err(e) == [ok |-> FALSE, value |-> e]

\* lines 29-33: _compute_mean_std.extract_data
ExtractMeanStd(ds, idx) ==
    IF ds[idx].corrupt
      THEN Err("dataset read error")
      ELSE Ok(<<ds[idx].y, ds[idx].force>>)

ScatterShifted(index, dim_size) ==
    [p \in 1 .. dim_size |->
        Cardinality({a \in DOMAIN index.v : index.v[a] = p})]

\* lines 71-79: scatter(ones(n), atomic_numbers.long(), dim_size=10): entry
\* z (kept at position z + 1) is the number of atoms with atomic number z.
Scatter(index, dim_size) ==
    [p \in 1 .. dim_size |->
        Cardinality({a \in DOMAIN index.v : index.v[a] = p - 1})]

\* lines 69-82: _linref.extract_data
ExtractLinref(ds, idx) ==
    IF ds[idx].corrupt
      THEN Err("dataset read error")
      ELSE LET z == Long(ds[idx].atomic_numbers)
           IN IF \E a \in DOMAIN z.v : z.v[a] >= DimSize
                THEN Err("scatter index out of bounds")
                ELSE Ok(<<Scatter(z, DimSize), ds[idx].y, ds[idx].force>>)

\* the extract_data of the handler fn
extract_data(fn, ds, idx) ==
    IF fn = "_linref" THEN ExtractLinref(ds, idx) ELSE ExtractMeanStd(ds, idx)

ScriptRaise(e) ==
    /\ spc' = "raised"
    /\ serr' = e

HandlerSwapped(sub) ==
    CASE sub = "compute_mean_std" -> "_linref"
      [] sub = "linref" -> "_compute_mean_std"

\* lines 110, 116: set_defaults(fn=...)
Handler(sub) ==
    CASE sub = "compute_mean_std" -> "_compute_mean_std"
      [] sub = "linref" -> "_linref"

\* lines 100-119: main parses the command line and calls args.fn, the handler
\* bound to the subcommand.
Main ==
    /\ spc = "main"
    /\ CASE args.subcommand \in Subcommands ->
              /\ args' = [args EXCEPT !.fn = Handler(args.subcommand)]
              /\ spc' = "handler"
              /\ UNCHANGED serr
         [] args.subcommand = None ->
              \* no subparser ran, so args has no fn
              ScriptRaise("AttributeError") /\ UNCHANGED args
         [] OTHER ->
              \* argparse rejects the unknown choice and exits
              ScriptRaise("SystemExit") /\ UNCHANGED args
    /\ UNCHANGED <<dataset, poolSize, taskq, running, attempts,
                   items, outputs, reduced, files, ctorVars, fwdVars>>

ProcessesPerCpu(a) == a.cpu_count

\* lines 35, 84: mp.Pool(args.num_workers)
Processes(a) == a.num_workers

\* lines 35-38, 84-87: the pool is created, the indices are submitted with
\* imap, and list() starts to read the results.
FanOut ==
    /\ spc = "handler"
    /\ IF Processes(args) < 1
         THEN /\ ScriptRaise("ValueError:processes")
              /\ UNCHANGED <<poolSize, taskq, running, attempts, items>>
         ELSE /\ poolSize' = Processes(args)
              /\ running' = [w \in 1 .. Processes(args) |-> Idle]
              /\ taskq' = [i \in 1 .. DatasetLen(dataset) |-> i - 1]
              /\ attempts' = [i \in DOMAIN dataset |-> 0]
              /\ items' = EmptyDict
              /\ spc' = "collect"
              /\ UNCHANGED serr
    /\ UNCHANGED <<args, dataset, outputs, reduced, files, ctorVars, fwdVars>>

\* A pool worker takes the next task of the queue.
WorkerTake(w) ==
    /\ running[w] = Idle
    /\ taskq # <<>>
    /\ running' = [running EXCEPT ![w] = <<Head(taskq)>>]
    /\ taskq' = Tail(taskq)
    /\ attempts' = [attempts EXCEPT ![Head(taskq)] = @ + 1]
    /\ UNCHANGED <<args, dataset, spc, serr, poolSize, items, outputs,
                   reduced, files, ctorVars, fwdVars>>

\* A pool worker finishes extract_data(idx); the result, or the exception it
\* raised, is stored under idx for the imap iterator.
WorkerFinish(w) ==
    /\ running[w] # Idle
    /\ items' = Put(items, running[w][1],
                    extract_data(args.fn, dataset, running[w][1]))
    /\ running' = [running EXCEPT ![w] = Idle]
    /\ UNCHANGED <<args, dataset, spc, serr, poolSize, taskq, attempts,
                   outputs, reduced, files, ctorVars, fwdVars>>

NextAnyFinished(its, outs) ==
    IF DOMAIN its = {} THEN Len(outs) ELSE CHOOSE i \in DOMAIN its : TRUE

\* imap's iterator yields the results in index order: the next one is that
\* of index len(outputs).
NextIndex(its, outs) == Len(outs)

CollectRetrying ==
    /\ spc = "collect"
    /\ LET i == NextIndex(items, outputs)
       IN /\ Has(items, i)
          /\ items' = [j \in DOMAIN items \ {i} |-> items[j]]
          /\ IF items[i].ok
               THEN outputs' = Append(outputs, items[i].value)
                    /\ UNCHANGED taskq
               ELSE taskq' = Append(taskq, i) /\ UNCHANGED outputs
    /\ UNCHANGED <<args, dataset, spc, serr, poolSize, running, attempts,
                   reduced, files, ctorVars, fwdVars>>

\* lines 38, 87: list(...) reads the next result of the imap iterator; a
\* task's exception is raised again here.
Collect ==
    /\ spc = "collect"
    /\ LET i == NextIndex(items, outputs)
       IN /\ Has(items, i)
          /\ IF items[i].ok
               THEN /\ outputs' = Append(outputs, items[i].value)
                    /\ items' = [j \in DOMAIN items \ {i} |-> items[j]]
                    /\ UNCHANGED <<spc, serr>>
               ELSE /\ ScriptRaise(items[i].value)
                    /\ items' = [j \in DOMAIN items \ {i} |-> items[j]]
                    /\ UNCHANGED outputs
    /\ UNCHANGED <<args, dataset, poolSize, taskq, running, attempts,
                   reduced, files, ctorVars, fwdVars>>

\* The numeric results are numpy's; the model keeps each as the operation and
\* the operand that determine it.
Apply(op, operand) == [op |-> op, of |-> operand]

RECURSIVE Flatten(_)
\* [force for y, forces in outputs for force in forces]
Flatten(rows) ==
    IF rows = <<>> THEN <<>> ELSE Head(rows) \o Flatten(Tail(rows))

\* lines 40-46: the statistics of _compute_mean_std
MeanStd(outs) ==
    LET energies == [i \in DOMAIN outs |-> outs[i][1]]
        forces == Flatten([i \in DOMAIN outs |-> outs[i][2]])
    IN Ok([energy_mean |-> Apply("mean", energies),
           energy_std |-> Apply("std", energies),
           force_rms |-> Apply("sqrt(mean(square))", forces),
           force_md |-> Apply("mean(norm)", forces)])

\* line 95: np.linalg.lstsq(X, y, rcond=None)[0]: one weight per column of X
Lstsq(X, y) ==
    [op |-> "lstsq", of |-> <<X, y>>, shape |-> <<Len(X[1])>>]

\* lines 89-95: the least-squares fit of _linref; vstack of no rows raises
Linref(outs) ==
    LET features == [i \in DOMAIN outs |-> outs[i][1]]
        targets == [i \in DOMAIN outs |-> outs[i][2]]
    IN IF features = <<>>
         THEN Err("ValueError:vstack")
         ELSE Ok([coeff |-> Lstsq(features, targets)])

ReduceEarly(outs, n) == Len(outs) >= 1 \/ n = 0

\* list(...) returns when the imap iterator is exhausted, that is after it
\* has yielded the results of all n indices.
Exhausted(outs, n) == Len(outs) = n

\* lines 40-50, 89-95
Reduce ==
    /\ spc = "collect"
    /\ Exhausted(outputs, DatasetLen(dataset))
    /\ LET r == IF args.fn = "_linref"
                  THEN Linref(outputs) ELSE MeanStd(outputs)
       IN IF r.ok
            THEN reduced' = r.value /\ spc' = "write" /\ UNCHANGED serr
            ELSE ScriptRaise(r.value) /\ UNCHANGED reduced
    /\ UNCHANGED <<args, dataset, poolSize, taskq, running, attempts,
                   items, outputs, files, ctorVars, fwdVars>>

\* lines 52-61: pickle.dump of the statistics;
\* line 96: np.savez_compressed(out_path, coeff=coeff)
Content(fn, r) ==
    IF fn = "_linref"
      THEN [format |-> "npz_compressed", holds |-> [coeff |-> r.coeff]]
      ELSE [format |-> "pickle",
            holds |-> [energy_mean |-> r.energy_mean,
                       energy_std |-> r.energy_std,
                       force_rms |-> r.force_rms,
                       force_md |-> r.force_md]]

\* lines 52-61, 96-97
Write ==
    /\ spc = "write"
    /\ files' = Put(files, args.out_path,
                    Append(IF Has(files, args.out_path)
                             THEN files[args.out_path] ELSE <<>>,
                           Content(args.fn, reduced)))
    /\ spc' = "done"
    /\ UNCHANGED <<args, dataset, serr, poolSize, taskq, running, attempts,
                   items, outputs, reduced, ctorVars, fwdVars>>

ScriptArgs ==
    [ subcommand : SubcommandArgs,
      num_workers : 0 .. MaxWorkers,
      out_path : {"out_path"},
      \* args.fn, set by the subparser that ran
      fn : {None},
      \* the machine's CPU count (not an argument: what Pool() would use)
      cpu_count : 1 .. MaxCpus ]

ScriptNext ==
    \/ Main
    \/ FanOut
    \/ \E w \in DOMAIN running : WorkerTake(w)
    \/ \E w \in DOMAIN running : WorkerFinish(w)
    \/ Collect
    \/ Reduce
    \/ Write

(***************************************************************************)
(* EquiformerV2Backbone.forward and _init_gp_partitions                    *)
(***************************************************************************)

MaxNodes == 3
MaxEdges == 2
FwdMaxNodes == 2
FwdMaxEdges == 1

\* Tensors are sequences; the code's indices start at 0.
At(t, i) == t[i + 1]
\* t[index]: the entries of t at the positions index names, in index's order
Index(t, index) == [k \in 1 .. Len(index) |-> At(t, index[k])]
Arange(n) == [k \in 1 .. n |-> k - 1]
Min(t) == CHOOSE m \in {t[k] : k \in DOMAIN t} : \A k \in DOMAIN t : m <= t[k]
Max(t) == CHOOSE m \in {t[k] : k \in DOMAIN t} : \A k \in DOMAIN t : m >= t[k]

RECURSIVE Ascending(_)
\* the members of a set of numbers, in increasing order
Ascending(S) ==
    IF S = {} THEN <<>>
    ELSE LET m == CHOOSE x \in S : \A y \in S : x <= y
         IN <<m>> \o Ascending(S \ {m})

\* torch.where(mask)[0]: the positions at which mask holds, in increasing order
Where(mask) == Ascending({k - 1 : k \in {j \in DOMAIN mask : mask[j]}})

RECURSIVE Sum(_)
Sum(t) == IF t = <<>> THEN 0 ELSE Head(t) + Sum(Tail(t))

\* The ways to cut n nodes into consecutive non-empty chunks, one per rank.
Cuts(n) ==
    {c \in UNION {[1 .. k -> 1 .. n] : k \in 1 .. n} : Sum(c) = n}

\* gp_utils.scatter_to_model_parallel_region: the chunk of t that the rank
\* owns, the chunks being consecutive and of the sizes sizes.
scatter_to_model_parallel_region(t, sizes, rank) ==
    LET before == Sum(SubSeq(sizes, 1, rank))
    IN SubSeq(t, before + 1, before + sizes[rank + 1])

EdgePartitionStrict(edge_index, node_partition) ==
    Where([e \in DOMAIN edge_index[2] |->
              /\ edge_index[2][e] >= Min(node_partition)
              /\ edge_index[2][e] < Max(node_partition)])

EdgePartitionBySource(edge_index, node_partition) ==
    Where([e \in DOMAIN edge_index[1] |->
              /\ edge_index[1][e] >= Min(node_partition)
              /\ edge_index[1][e] <= Max(node_partition)])

\* lines 569-574: the edges whose target edge_index[1] lies between the
\* smallest and the largest node of the partition
EdgePartition(edge_index, node_partition) ==
    Where([e \in DOMAIN edge_index[2] |->
              /\ edge_index[2][e] >= Min(node_partition)
              /\ edge_index[2][e] <= Max(node_partition)])

\* lines 554-588
_init_gp_partitions(atomic_numbers_full, data_batch_full, edge_index, edge_distance, edge_distance_vec, node_partition) ==
    LET edge_partition == EdgePartition(edge_index, node_partition)
    IN [atomic_numbers |->
            [atomic_numbers_full EXCEPT !.v = Index(@, node_partition)],
        data_batch |-> Index(data_batch_full, node_partition),
        node_offset |-> Min(node_partition),
        edge_index |-> <<Index(edge_index[1], edge_partition),
                         Index(edge_index[2], edge_partition)>>,
        edge_distance |-> Index(edge_distance, edge_partition),
        edge_distance_vec |-> Index(edge_distance_vec, edge_partition)]

\* The batches: n atoms and a list of edges (source, target) over them. Each
\* edge carries a distance and a vector that name its position in the list;
\* the atoms belong to graphs of two atoms each.
EdgeLists(n, maxEdges) ==
    UNION {[1 .. m -> (0 .. n - 1) \X (0 .. n - 1)] : m \in 0 .. maxEdges}

Batch(z, edges) ==
    [natoms |-> [g \in 1 .. (Len(z) + 1) \div 2 |->
                    IF 2 * g <= Len(z) THEN 2 ELSE 1],
     pos |-> [dtype |-> "float64", device |-> "cuda:0"],
     atomic_numbers |-> Tensor("float32", z),
     batch |-> [k \in 1 .. Len(z) |-> (k - 1) \div 2],
     main_edge_index |-> <<[e \in DOMAIN edges |-> edges[e][1]],
                           [e \in DOMAIN edges |-> edges[e][2]]>>,
     main_distance |-> [e \in DOMAIN edges |-> 10 + e],
     main_vector |-> [e \in DOMAIN edges |-> 20 + e]]

\* lines 415-425
GraphData(d) ==
    [edge_index |-> d.main_edge_index,
     edge_distance |-> d.main_distance,
     edge_distance_vec |-> d.main_vector,
     node_offset |-> 0,
     batch_full |-> d.batch,
     atomic_numbers_full |-> Long(d.atomic_numbers)]

\* One rank runs _init_gp_partitions on the full tensors of the graph.
GpPartition(rank) ==
    /\ ~Has(parts, rank)
    /\ parts' = Put(parts, rank,
          _init_gp_partitions(
              graph.atomic_numbers_full, graph.batch_full, graph.edge_index,
              graph.edge_distance, graph.edge_distance_vec,
              scatter_to_model_parallel_region(
                  Arange(Len(graph.atomic_numbers_full.v)), gp.sizes, rank)))
    /\ UNCHANGED <<model, data, gp, fpc, graph, locals, ret, ctorVars,
                   scriptVars>>

GPNext == \E rank \in 0 .. Len(gp.sizes) - 1 : GpPartition(rank)

FwdReturn(v) ==
    /\ ret' = v
    /\ fpc' = "returned"

ReturnNone == [none |-> TRUE]
Pending == [pending |-> TRUE]

ExceedsMaximumStrictly(atomic_numbers, max_num_elements) ==
    Max(atomic_numbers.v) > max_num_elements

\* line 404: atomic_numbers.max().item() >= self.max_num_elements
ExceedsMaximum(atomic_numbers, max_num_elements) ==
    Max(atomic_numbers.v) >= max_num_elements

\* lines 400-406
FwdEnter ==
    /\ fpc = "enter"
    /\ model' = [model EXCEPT !.batch_size = Len(data.natoms),
                              !.dtype = data.pos.dtype,
                              !.device = data.pos.device]
    /\ locals' = [locals EXCEPT !.atomic_numbers = Long(data.atomic_numbers)]
    /\ IF ExceedsMaximum(Long(data.atomic_numbers), model.max_num_elements)
         THEN FwdReturn(ReturnNone)
         ELSE fpc' = "graph" /\ UNCHANGED ret
    /\ UNCHANGED <<data, gp, graph, parts, ctorVars, scriptVars>>

\* lines 415-427
FwdGraph ==
    /\ fpc = "graph"
    /\ graph' = GraphData(data)
    /\ locals' = [locals EXCEPT !.data_batch = data.batch]
    /\ fpc' = "partition"
    /\ UNCHANGED <<model, data, gp, ret, parts, ctorVars, scriptVars>>

AlwaysPartitions(g) == TRUE

\* line 428: if gp_utils.initialized()
Partitions(g) == g.initialized

\* lines 428-446
FwdPartition ==
    /\ fpc = "partition"
    /\ IF Partitions(gp)
         THEN LET p == _init_gp_partitions(
                          graph.atomic_numbers_full, graph.batch_full,
                          graph.edge_index, graph.edge_distance,
                          graph.edge_distance_vec,
                          scatter_to_model_parallel_region(
                              Arange(Len(graph.atomic_numbers_full.v)),
                              gp.sizes, gp.rank))
              IN /\ locals' = [locals EXCEPT
                                  !.atomic_numbers = p.atomic_numbers,
                                  !.data_batch = p.data_batch]
                 /\ graph' = [graph EXCEPT
                                  !.node_offset = p.node_offset,
                                  !.edge_index = p.edge_index,
                                  !.edge_distance = p.edge_distance,
                                  !.edge_distance_vec = p.edge_distance_vec]
         ELSE UNCHANGED <<locals, graph>>
    /\ fpc' = "embedding"
    /\ UNCHANGED <<model, data, gp, ret, parts, ctorVars, scriptVars>>

\* lines 464-497: the rotation matrices of the edges and the embedding x of
\* the len(atomic_numbers) nodes
FwdEmbedding ==
    /\ fpc = "embedding"
    /\ locals' = [locals EXCEPT
                     !.edge_rot_mat = Apply("init_edge_rot_mat",
                                            graph.edge_distance_vec),
                     !.x = Apply("sphere_embedding", locals.atomic_numbers)]
    /\ fpc' = "edge_encoding"
    /\ UNCHANGED <<model, data, gp, graph, ret, parts, ctorVars, scriptVars>>

\* lines 500-512: the distance expansion, and the embeddings of the source
\* and target elements joined to it
EdgeEncoding(m, g) ==
    IF m.share_atom_edge_embedding /\ m.use_atom_edge_embedding
      THEN Apply("cat",
             <<Apply("distance_expansion", g.edge_distance),
               Apply("source_embedding",
                     Index(g.atomic_numbers_full.v, g.edge_index[1])),
               Apply("target_embedding",
                     Index(g.atomic_numbers_full.v, g.edge_index[2]))>>)
      ELSE Apply("distance_expansion", g.edge_distance)

FwdEdgeEncoding ==
    /\ fpc = "edge_encoding"
    /\ graph' = [graph EXCEPT !.edge_distance = EdgeEncoding(model, graph)]
    /\ fpc' = "blocks"
    /\ UNCHANGED <<model, data, gp, locals, ret, parts, ctorVars, scriptVars>>

\* lines 514-552: the edge-degree embedding, the blocks and the final norm
FwdBlocks ==
    /\ fpc = "blocks"
    /\ locals' = [locals EXCEPT
                     !.x = Apply("norm", Apply("blocks",
                              <<@, graph.atomic_numbers_full,
                                graph.edge_distance, graph.edge_index,
                                locals.data_batch, graph.node_offset>>)),
                     !.blocks_run = model.num_layers]
    /\ FwdReturn([node_embedding |-> locals'.x, graph |-> graph])
    /\ UNCHANGED <<model, data, gp, graph, parts, ctorVars, scriptVars>>

FwdNext ==
    \/ FwdEnter
    \/ FwdGraph
    \/ FwdPartition
    \/ FwdEmbedding
    \/ FwdEdgeEncoding
    \/ FwdBlocks

(***************************************************************************)
(* The specifications                                                      *)
(***************************************************************************)

InitCtor ==
    /\ cfg \in Configs
    /\ cpc = "import_check"
    /\ cerr = NoError
    /\ self_ = EmptyDict
    /\ args = Unused /\ dataset = Unused /\ spc = Unused /\ serr = NoError
    /\ poolSize = 0 /\ taskq = <<>> /\ running = <<>>
    /\ attempts = EmptyDict /\ items = EmptyDict /\ outputs = <<>>
    /\ reduced = NotYet /\ files = EmptyDict
    /\ model = Unused /\ data = Unused /\ gp = Unused /\ fpc = Unused
    /\ graph = Unused /\ locals = Unused /\ ret = Pending
    /\ parts = EmptyDict

InitScript ==
    /\ args \in ScriptArgs
    /\ dataset \in Datasets
    /\ spc = "main"
    /\ serr = NoError
    /\ poolSize = 0 /\ taskq = <<>> /\ running = <<>>
    /\ attempts = EmptyDict /\ items = EmptyDict /\ outputs = <<>>
    /\ reduced = NotYet /\ files = EmptyDict
    /\ cfg = Unused /\ cpc = Unused /\ cerr = NoError /\ self_ = EmptyDict
    /\ model = Unused /\ data = Unused /\ gp = Unused /\ fpc = Unused
    /\ graph = Unused /\ locals = Unused /\ ret = Pending
    /\ parts = EmptyDict

\* Every rank holds the same batch, whose graph forward has built; the nodes
\* carry the atomic numbers 1, 2, ... so that each is told from the others.
InitGP ==
    /\ \E n \in 1 .. MaxNodes :
          /\ data \in {Batch([k \in 1 .. n |-> k], edges) :
                          edges \in EdgeLists(n, MaxEdges)}
          /\ gp \in [initialized : {TRUE}, sizes : Cuts(n), rank : {0}]
    /\ graph = GraphData(data)
    /\ parts = EmptyDict
    /\ model = Unused /\ fpc = Unused /\ locals = Unused /\ ret = Pending
    /\ cfg = Unused /\ cpc = Unused /\ cerr = NoError /\ self_ = EmptyDict
    /\ args = Unused /\ dataset = Unused /\ spc = Unused /\ serr = NoError
    /\ poolSize = 0 /\ taskq = <<>> /\ running = <<>>
    /\ attempts = EmptyDict /\ items = EmptyDict /\ outputs = <<>>
    /\ reduced = NotYet /\ files = EmptyDict

AtomicNumberValues == {1, 8, 9, 10}
MaxNumElementsValues == {9}

\* The model is a constructed one (sharing the atom edge embedding implies
\* using it). This rank is one of the ranks the nodes are cut over; the cut
\* is read only when graph parallelism is initialized.
InitFwd ==
    /\ \E n \in 1 .. FwdMaxNodes :
          /\ data \in {Batch(z, edges) :
                          z \in [1 .. n -> AtomicNumberValues],
                          edges \in EdgeLists(n, FwdMaxEdges)}
          /\ gp \in {g \in [initialized : BOOLEAN, sizes : Cuts(n),
                             rank : 0 .. n - 1] : g.rank < Len(g.sizes)}
    /\ model \in {m \in [max_num_elements : MaxNumElementsValues,
                         share_atom_edge_embedding : BOOLEAN,
                         use_atom_edge_embedding : BOOLEAN,
                         num_layers : {2},
                         batch_size : {None},
                         dtype : {None},
                         device : {"cpu"}] :
                     m.share_atom_edge_embedding => m.use_atom_edge_embedding}
    /\ fpc = "enter"
    /\ graph = Pending
    /\ locals = [atomic_numbers |-> Pending, data_batch |-> Pending,
                 edge_rot_mat |-> Pending, x |-> Pending, blocks_run |-> 0]
    /\ ret = Pending
    /\ parts = EmptyDict
    /\ cfg = Unused /\ cpc = Unused /\ cerr = NoError /\ self_ = EmptyDict
    /\ args = Unused /\ dataset = Unused /\ spc = Unused /\ serr = NoError
    /\ poolSize = 0 /\ taskq = <<>> /\ running = <<>>
    /\ attempts = EmptyDict /\ items = EmptyDict /\ outputs = <<>>
    /\ reduced = NotYet /\ files = EmptyDict

SpecCtor == InitCtor /\ [][CtorNext]_vars
SpecScript == InitScript /\ [][ScriptNext]_vars
SpecGP == InitGP /\ [][GPNext]_vars
SpecFwd == InitFwd /\ [][FwdNext]_vars

(***************************************************************************)
(* The claims                                                              *)
(***************************************************************************)

LinRefCheckReached ==
    \/ cpc \in {"weight_init_check", "sphere_embedding", "distance_function",
                "edge_channels", "submodules", "energy_lin_ref", "constructed"}
    \/ cpc = "raised" /\ cerr \in {"AssertionError:energy_lin_ref",
                                   "AssertionError:weight_init",
                                   "AssertionError:distance_function",
                                   "ValueError"}

\* C1: the constructor's lin_ref check fails, with an assertion error, exactly
\* when use_energy_lin_ref is true and load_energy_lin_ref is false: a
\* configuration that reaches the check is stopped there if and only if it
\* has that combination, the other three combinations go on; and a
\* constructed model has the energy_lin_ref parameter if and only if
\* load_energy_lin_ref is true.
C1_LinRefCheck ==
    /\ LinRefCheckReached =>
          ((cpc = "raised" /\ cerr = "AssertionError:energy_lin_ref")
              <=> (cfg.use_energy_lin_ref /\ ~cfg.load_energy_lin_ref))
    /\ (ImportOk(cfg) /\ AtomEdgeFlagsOk(cfg)
          /\ cpc \notin {"import_check", "atom_edge_flags", "lin_ref_check"})
          => LinRefCheckReached
    /\ Has(self_, "energy_lin_ref") => cfg.load_energy_lin_ref
    /\ cpc = "constructed" =>
          (Has(self_, "energy_lin_ref") <=> cfg.load_energy_lin_ref)

C1_Witness ==
    /\ cpc = "raised"
    /\ cerr = "AssertionError:energy_lin_ref"
    /\ cfg.use_energy_lin_ref
    /\ ~cfg.load_energy_lin_ref

Collected == Len(outputs) = DatasetLen(dataset)

\* C2: in both subcommands no reduction (the statistics, the vstack and the
\* least-squares solve) has happened and nothing is written to out_path
\* until the results of all indices 0 .. len(dataset)-1 have been collected.
C2_CollectedBeforeReduction ==
    (\/ spc \in {"write", "done"}
     \/ reduced # NotYet
     \/ DOMAIN files # {}
     \/ spc = "raised" /\ serr = "ValueError:vstack")
       => /\ Collected
          /\ \A i \in DOMAIN dataset :
                /\ attempts[i] = 1
                /\ outputs[i + 1] = extract_data(args.fn, dataset, i).value

C2_Witness ==
    /\ spc = "done"
    /\ DatasetLen(dataset) = MaxSamples
    /\ poolSize = MaxWorkers
    /\ Has(files, args.out_path)

Failing ==
    {i \in DOMAIN dataset : ~extract_data(args.fn, dataset, i).ok}

FirstFailing == CHOOSE i \in Failing : \A j \in Failing : i <= j

\* C3: no retry, recovery or partial result: each index is attempted at most
\* once, and when extract_data fails for some index the subcommand reduces
\* nothing, never opens or writes out_path, and ends raising that error.
C3_NoRetryNoPartial ==
    /\ \A i \in DOMAIN attempts : attempts[i] <= 1
    /\ spc = "raised" => DOMAIN files = {}
    /\ (poolSize >= 1 /\ Failing # {}) =>
          /\ spc \in {"collect", "raised"}
          /\ reduced = NotYet
          /\ DOMAIN files = {}
          /\ spc = "raised" =>
                serr = extract_data(args.fn, dataset, FirstFailing).value
          /\ ~ENABLED ScriptNext => spc = "raised"

C3_Witness ==
    /\ spc = "raised"
    /\ serr = "dataset read error"
    /\ Len(outputs) >= 1
    /\ DOMAIN files = {}
    /\ \A i \in DOMAIN attempts : attempts[i] = 1

\* C4 as stated: the pool has one worker process per CPU core.
C4_OneWorkerPerCpu ==
    poolSize > 0 => poolSize = args.cpu_count

\* C4, amended: the pool has args.num_workers worker processes, whatever the
\* number of CPU cores, and no more than that many indices are in work at
\* a time.
C4_PoolSizeIsNumWorkers ==
    /\ spc \in {"collect", "write", "done"} => poolSize = args.num_workers
    /\ poolSize > 0 =>
          /\ poolSize = args.num_workers
          /\ Len(running) = args.num_workers
    /\ Cardinality({w \in DOMAIN running : running[w] # Idle})
          <= args.num_workers

C4_Witness ==
    /\ poolSize = args.num_workers
    /\ poolSize # args.cpu_count
    /\ \A w \in DOMAIN running : running[w] # Idle
    /\ poolSize = MaxWorkers

C6_AcceptsDocumentedDistanceFunctions ==
    cfg.distance_function \in DocumentedDistanceFunctions =>
       ~(cpc = "raised"
         /\ cerr \in {"AssertionError:distance_function", "ValueError"})

PastPartition ==
    fpc \in {"embedding", "edge_encoding", "blocks"}
       \/ (fpc = "returned" /\ ret # ReturnNone)

NodesOf(rank) ==
    LET first == Sum(SubSeq(gp.sizes, 1, rank))
    IN first .. first + gp.sizes[rank + 1] - 1

\* the entries of t at the positions in S, in t's order
Restrict(t, S) ==
    LET F[k \in 0 .. Len(t)] ==
          IF k = 0 THEN <<>>
          ELSE IF k \in S THEN Append(F[k - 1], t[k]) ELSE F[k - 1]
    IN F[Len(t)]

\* C8: on every rank, _init_gp_partitions returns atomic_numbers and
\* data_batch as the full tensors restricted to the rank's node_partition,
\* node_offset as the smallest node of the partition, and the three edge
\* tensors as the entries, in the original order, of exactly the edges whose
\* target lies between the smallest and the largest node of the partition.
C8_PartitionByNode ==
    \A rank \in DOMAIN parts :
        LET nodes == NodesOf(rank)
            lo == CHOOSE m \in nodes : \A x \in nodes : m <= x
            hi == CHOOSE m \in nodes : \A x \in nodes : m >= x
            p == parts[rank]
            kept == {e \in DOMAIN graph.edge_index[2] :
                        lo <= graph.edge_index[2][e]
                        /\ graph.edge_index[2][e] <= hi}
        IN /\ p.atomic_numbers.v =
                 Restrict(graph.atomic_numbers_full.v, {x + 1 : x \in nodes})
           /\ p.data_batch = Restrict(graph.batch_full, {x + 1 : x \in nodes})
           /\ p.node_offset = lo
           /\ p.edge_index = <<Restrict(graph.edge_index[1], kept),
                               Restrict(graph.edge_index[2], kept)>>
           /\ p.edge_distance = Restrict(graph.edge_distance, kept)
           /\ p.edge_distance_vec = Restrict(graph.edge_distance_vec, kept)

C8_Witness ==
    \E rank \in DOMAIN parts :
        /\ rank >= 1
        /\ parts[rank].node_offset >= 1
        /\ Len(parts[rank].data_batch) >= 2
        /\ Len(graph.edge_distance) = MaxEdges
        /\ parts[rank].edge_distance = <<graph.edge_distance[MaxEdges]>>
        /\ parts[rank].edge_index[2] = <<graph.edge_index[2][MaxEdges]>>

Elems(t) == {t[k] : k \in DOMAIN t}

\* C9: whatever the order in which the workers finish, the collected list
\* holds at position i the result of extract_data(i), each index once, and
\* has len(dataset) entries when the reduction starts; what is written to
\* out_path is what the dataset alone determines, for every interleaving
\* and every worker count >= 1.
C9_OutputsInIndexOrder ==
    /\ Len(outputs) <= DatasetLen(dataset)
    /\ \A k \in DOMAIN outputs :
          outputs[k] = extract_data(args.fn, dataset, k - 1).value
    /\ spc \in {"write", "done"} => Collected
    /\ spc = "done" =>
          LET all == [k \in 1 .. DatasetLen(dataset) |->
                         extract_data(args.fn, dataset, k - 1).value]
              r == IF args.fn = "_linref" THEN Linref(all) ELSE MeanStd(all)
          IN files[args.out_path] = <<Content(args.fn, r.value)>>

C9_Witness ==
    /\ spc = "collect"
    /\ Len(outputs) = 1
    /\ Has(items, 2)
    /\ ~Has(items, 1)
    /\ dataset[0] # dataset[2]

\* C10: with the nodes cut into non-empty consecutive chunks, one per rank,
\* the edge partitions of the ranks are pairwise disjoint and cover the
\* edges: every edge is held by exactly the rank that owns its target node.
C10_EdgesPartitioned ==
    /\ \A rank \in DOMAIN parts :
          /\ \A e \in DOMAIN graph.edge_distance :
                (graph.edge_distance[e] \in Elems(parts[rank].edge_distance))
                   <=> (graph.edge_index[2][e] \in NodesOf(rank))
          /\ Cardinality(Elems(parts[rank].edge_distance))
                = Len(parts[rank].edge_distance)
    /\ DOMAIN parts = 0 .. Len(gp.sizes) - 1 =>
          /\ \A e \in DOMAIN graph.edge_distance :
                Cardinality({rank \in DOMAIN parts :
                    graph.edge_distance[e]
                       \in Elems(parts[rank].edge_distance)}) = 1
          /\ Sum([k \in 1 .. Len(gp.sizes) |->
                     Len(parts[k - 1].edge_distance)])
                = Len(graph.edge_distance)

C10_Witness ==
    /\ Len(gp.sizes) >= 2
    /\ DOMAIN parts = 0 .. Len(gp.sizes) - 1
    /\ Len(graph.edge_distance) = MaxEdges
    /\ Cardinality({rank \in DOMAIN parts :
                       parts[rank].edge_distance # <<>>}) >= 2
    /\ \E e \in DOMAIN graph.edge_distance :
          \E rank \in DOMAIN parts :
             /\ graph.edge_index[1][e] \notin NodesOf(rank)
             /\ graph.edge_index[2][e] \in NodesOf(rank)

LargestAtomicNumber == Max(data.atomic_numbers.v)

C12_AtomEdgeEmbedding ==
    /\ (cpc = "raised" /\ cerr = "AssertionError:share_atom_edge_embedding")
          => (cfg.share_atom_edge_embedding /\ ~cfg.use_atom_edge_embedding)
    /\ (cfg.share_atom_edge_embedding /\ ~cfg.use_atom_edge_embedding) =>
          \/ cpc \in {"import_check", "atom_edge_flags"}
          \/ cpc = "raised"
             /\ cerr \in {"ImportError",
                          "AssertionError:share_atom_edge_embedding"}
    /\ cpc = "constructed" =>
          /\ self_["block_use_atom_edge_embedding"] =
                (IF cfg.share_atom_edge_embedding
                   THEN FALSE ELSE cfg.use_atom_edge_embedding)
          /\ (self_["source_embedding"] # None)
                <=> cfg.share_atom_edge_embedding
          /\ (self_["target_embedding"] # None)
                <=> cfg.share_atom_edge_embedding
          /\ self_["edge_channels_list"] =
                <<NumGaussians + (IF self_["source_embedding"] # None
                                    THEN 2 * cfg.edge_channels ELSE 0),
                  cfg.edge_channels, cfg.edge_channels>>

C12_Witness ==
    /\ cpc = "constructed"
    /\ cfg.share_atom_edge_embedding
    /\ self_["source_embedding"] = "Embedding"
    /\ self_["target_embedding"] = "Embedding"
    /\ ~self_["block_use_atom_edge_embedding"]
    /\ self_["edge_channels_list"][1] = NumGaussians + 2 * cfg.edge_channels

RECURSIVE CountOf(_, _)
\* how many entries of the sequence z equal e
CountOf(z, e) ==
    IF z = <<>> THEN 0
    ELSE (IF Head(z) = e THEN 1 ELSE 0) + CountOf(Tail(z), e)

\* row is the count vector of the atoms z over the element slots 0 .. 9
IsCountVector(row, z) ==
    /\ Len(row) = 10
    /\ \A e \in 0 .. 9 : row[e + 1] = CountOf(z, e)
    /\ Sum(row) = Len(z)

\* C13: in linref the feature row of a sample is its atom count vector of
\* length 10 (entry z counts the atoms of atomic number z, so the entries sum
\* to the atom count), X has one such row per dataset index, the saved coeff
\* has 10 entries, and a sample with an atomic number >= 10 has no row: its
\* extraction fails and nothing is fitted or saved.
C13_CountVector ==
    (spc \notin {"main", "raised"} /\ args.fn = "_linref") =>
        /\ \A i \in DOMAIN items :
              LET z == dataset[i].atomic_numbers.v
              IN /\ items[i].ok => IsCountVector(items[i].value[1], z)
                 /\ (\E a \in DOMAIN z : z[a] >= 10) => ~items[i].ok
        /\ \A k \in DOMAIN outputs :
              IsCountVector(outputs[k][1], dataset[k - 1].atomic_numbers.v)
        /\ spc \in {"write", "done"} =>
              /\ Len(reduced.coeff.of[1]) = DatasetLen(dataset)
              /\ \A k \in DOMAIN outputs :
                    reduced.coeff.of[1][k] = outputs[k][1]
              /\ reduced.coeff.shape = <<10>>
              /\ \A i \in DOMAIN dataset :
                    \A a \in DOMAIN dataset[i].atomic_numbers.v :
                       dataset[i].atomic_numbers.v[a] < 10
        /\ spc = "done" =>
              files[args.out_path][1].holds.coeff.shape = <<10>>

C13_Witness ==
    /\ spc = "done"
    /\ args.fn = "_linref"
    /\ DatasetLen(dataset) = MaxSamples
    /\ \E i \in DOMAIN dataset : dataset[i] = Water
    /\ \E i \in DOMAIN dataset : dataset[i] = Carbon
    /\ files[args.out_path][1].holds.coeff.shape = <<10>>

\* the attributes of the model that hold submodules or parameters
Submodules ==
    {"sphere_embedding", "distance_expansion", "source_embedding",
     "target_embedding", "SO3_rotation", "mappingReduced", "SO3_grid",
     "edge_degree_embedding", "blocks", "norm", "energy_lin_ref"}

\* C14: a model whose weight_init is neither normal nor uniform is not
\* constructed: the constructor raises an assertion error, and it does so,
\* as for the lin_ref flags before it, before any embedding, rotation, grid
\* or block submodule is created.
C14_WeightInitCheckedFirst ==
    /\ cfg.weight_init \notin {"normal", "uniform"} =>
          /\ cpc \in {"import_check", "atom_edge_flags", "lin_ref_check",
                      "weight_init_check", "raised"}
          /\ DOMAIN self_ \cap Submodules = {}
          /\ cpc = "raised" =>
                cerr \in {"ImportError",
                          "AssertionError:share_atom_edge_embedding",
                          "AssertionError:energy_lin_ref",
                          "AssertionError:weight_init"}
    /\ (cpc = "raised" /\ cerr = "AssertionError:weight_init") =>
          /\ cfg.weight_init \notin {"normal", "uniform"}
          /\ DOMAIN self_ \cap Submodules = {}
    /\ (cpc = "raised" /\ cerr = "AssertionError:energy_lin_ref") =>
          /\ DOMAIN self_ \cap Submodules = {}
          /\ ~Has(self_, "weight_init")
    /\ cpc = "constructed" => cfg.weight_init \in {"normal", "uniform"}

C14_Witness ==
    /\ cpc = "raised"
    /\ cerr = "AssertionError:weight_init"
    /\ cfg.weight_init = "xavier"
    /\ Has(self_, "weight_init")
    /\ Has(self_, "load_energy_lin_ref")
    /\ DOMAIN self_ \cap Submodules = {}

====
